---- MODULE Spec2Model ----
(***************************************************************************)
(* Model of btils' ThreaderManager (threader.go): a buffered channel of    *)
(* capacity `workers`, the worker goroutines launched by Start, the atomic *)
(* counter, and the caller goroutines that invoke Start, Feed, IsDone and  *)
(* Stop.  Every statement of threader.go that touches shared state is one  *)
(* atomic step; goroutines interleave between steps.                       *)
(***************************************************************************)
EXTENDS Integers, Sequences, FiniteSets

(* Bounds of the model. *)
MaxWorkers == 2
MaxItems == 3
MaxCallers == 2
MaxStarts == 2

Callers == 1..MaxCallers
Items == 1..MaxItems

VARIABLES
    channel,   \* tm.channel: the buffered items, oldest first
    closed,    \* tm.channel has been closed
    workers,   \* tm.workers (also the channel's capacity)
    counter,   \* tm.counter
    waiting,   \* number of workers waiting at `range tm.channel`
    calling,   \* items whose worker is inside tm.callback
    returned,  \* items whose callback returned, decrement not yet done
    exited,    \* number of workers that left the range loop
    cpc,       \* caller -> "idle" | "start" | "send" | "panicked"
    citem,     \* caller -> the item its Feed is sending (0: none)
    ci,        \* caller -> loop index i of its Start call
    fed,       \* history: number of Feed calls that did their increment
    enq,       \* history: items in the order their channel send completed
    deq,       \* history: items in the order the workers received them
    fin,       \* history: items in the order their callback returned
    done,      \* history: what the last IsDone returned ("none": no call yet)
    starts,    \* history: number of Start calls
    stopAt,    \* history: <<fed, counter>> when the channel was closed
    crashed    \* "no", or whose unrecovered panic ended the process

poolVars == <<channel, closed, workers, counter>>
goVars == <<waiting, calling, returned, exited>>
callerVars == <<cpc, citem, ci>>
histVars == <<fed, enq, deq, fin, done, starts>>
procVars == <<stopAt, crashed>>
vars == <<poolVars, goVars, callerVars, histVars, procVars>>

(***************************************************************************)
(* Channel and counter primitives as threader.go uses them.                *)
(***************************************************************************)

\* mutant: a buffer of at least one slot
Capacity_AtLeastOne == IF workers > 0 THEN workers ELSE 1

\* mutant: a buffer with one slot more than tm.workers
Capacity_PlusOne == workers + 1

\* make(chan T, workers): the buffer's capacity
Capacity == workers

\* mutant: the send does not notice that the channel is closed
CanSend_IgnoreClosed == Len(channel) < Capacity

\* `tm.channel <- in` can complete: the channel is open and has room
CanSend == ~closed /\ Len(channel) < Capacity

\* the buffer after `tm.channel <- in`
SendBuffer(in) == Append(channel, in)

\* mutant: a receive waits until no other worker is inside a callback
CanRecv_Serialized == Len(channel) > 0 /\ calling = {}

\* `range tm.channel` can yield an item: the buffer is not empty
CanRecv == Len(channel) > 0

\* mutant: the receive yields the newest item
RecvItem_Last == channel[Len(channel)]

\* the item `range tm.channel` yields next
RecvItem == Head(channel)

\* mutant: the receive leaves the item in the buffer
RecvBuffer_Keep == channel

\* the buffer after the receive
RecvBuffer == Tail(channel)

\* mutant: the increment is lost
FeedCounter_Lost == counter

\* atomic.AddInt64(&tm.counter, 1)
FeedCounter == counter + 1

\* mutant: the decrement is lost
WorkerCounter_Lost == counter

\* atomic.AddInt64(&tm.counter, -1)
WorkerCounter == counter - 1

\* mutant: done as soon as the queue is empty
IsDone_QueueEmpty == Len(channel) = 0

\* mutant: done with one item still pending
IsDone_AtMostOne == counter <= 1

\* atomic.LoadInt64(&tm.counter) == 0
IsDone == counter = 0

\* mutant: a failed send takes its increment back
FailedFeedCounter_Undone == counter - 1

\* the send panics after the increment, and nothing undoes the increment
FailedFeedCounter == counter

\* mutant: the decrement happens although the callback panicked
PanicCounter_Decremented == counter - 1

\* a panic in tm.callback(in) skips the decrement that follows it
PanicCounter == counter

\* mutant: closing discards the buffered items
CloseBuffer_Discard == <<>>

\* close(tm.channel) keeps the buffered items
CloseBuffer == channel

(***************************************************************************)
(* Construction.                                                           *)
(***************************************************************************)
NewThreadManager(w) ==
    /\ channel = <<>>
    /\ closed = FALSE
    /\ workers = w
    /\ counter = 0
    /\ waiting = 0
    /\ calling = {}
    /\ returned = {}
    /\ exited = 0
    /\ cpc = [t \in Callers |-> "idle"]
    /\ citem = [t \in Callers |-> 0]
    /\ ci = [t \in Callers |-> 0]
    /\ fed = 0
    /\ enq = <<>>
    /\ deq = <<>>
    /\ fin = <<>>
    /\ done = "none"
    /\ starts = 0
    /\ stopAt = <<>>
    /\ crashed = "no"

(***************************************************************************)
(* Start: for i := 0; i < tm.workers; i++ { go func() {...}() }            *)
(***************************************************************************)
\* mutant: the loop launches one worker too few
StartLoop_OneLess(t) == ci[t] < workers - 1

\* mutant: the loop launches twice tm.workers workers
StartLoop_Twice(t) == ci[t] < 2 * workers

\* mutant: the loop runs once more
StartLoop_OneMore(t) == ci[t] <= workers

\* the loop condition i < tm.workers
StartLoop(t) == ci[t] < workers

StartCall(t) ==
    /\ cpc[t] = "idle"
    /\ starts < MaxStarts
    /\ cpc' = [cpc EXCEPT ![t] = "start"]
    /\ ci' = [ci EXCEPT ![t] = 0]
    /\ starts' = starts + 1
    /\ UNCHANGED <<procVars, poolVars, goVars, citem, fed, enq, deq, fin, done>>

StartSpawn(t) ==
    /\ cpc[t] = "start"
    /\ StartLoop(t)
    /\ waiting' = waiting + 1
    /\ ci' = [ci EXCEPT ![t] = ci[t] + 1]
    /\ UNCHANGED <<procVars, poolVars, calling, returned, exited, cpc, citem,
                   histVars>>

StartReturn(t) ==
    /\ cpc[t] = "start"
    /\ ~StartLoop(t)
    /\ cpc' = [cpc EXCEPT ![t] = "idle"]
    /\ UNCHANGED <<procVars, poolVars, goVars, citem, ci, histVars>>

(***************************************************************************)
(* The worker goroutine: for in := range tm.channel { callback; dec }      *)
(* The goroutines are anonymous closures without state of their own, so    *)
(* the model keeps how many stand at each statement, and with which item.  *)
(***************************************************************************)
WorkerRecv ==
    /\ waiting > 0
    /\ CanRecv
    /\ waiting' = waiting - 1
    /\ calling' = calling \cup {RecvItem}
    /\ channel' = RecvBuffer
    /\ deq' = Append(deq, RecvItem)
    /\ UNCHANGED <<procVars, closed, workers, counter, returned, exited,
                   callerVars, fed, enq, fin, done, starts>>

CallbackReturn(x) ==
    /\ x \in calling
    /\ calling' = calling \ {x}
    /\ returned' = returned \cup {x}
    /\ fin' = Append(fin, x)
    /\ UNCHANGED <<procVars, poolVars, waiting, exited, callerVars, fed, enq,
                   deq, done, starts>>

WorkerDecrement(x) ==
    /\ x \in returned
    /\ counter' = WorkerCounter
    /\ returned' = returned \ {x}
    /\ waiting' = waiting + 1
    /\ UNCHANGED <<procVars, channel, closed, workers, calling, exited,
                   callerVars, histVars>>

\* tm.callback(in) panics: the goroutine has no recover, so the panic ends the
\* whole process, and no goroutine takes a step after it
CallbackPanic(x) ==
    /\ x \in calling
    /\ counter' = PanicCounter
    /\ crashed' = "callback"
    /\ UNCHANGED <<stopAt, channel, closed, workers, goVars, callerVars,
                   histVars>>

\* range ends once the channel is closed and drained
WorkerExit ==
    /\ waiting > 0
    /\ Len(channel) = 0
    /\ closed
    /\ waiting' = waiting - 1
    /\ exited' = exited + 1
    /\ UNCHANGED <<procVars, poolVars, calling, returned, callerVars, histVars>>

(***************************************************************************)
(* Feed: atomic.AddInt64(&tm.counter, 1); tm.channel <- in                 *)
(***************************************************************************)
FeedIncrement(t) ==
    /\ cpc[t] = "idle"
    /\ fed < MaxItems
    /\ counter' = FeedCounter
    /\ fed' = fed + 1
    /\ citem' = [citem EXCEPT ![t] = fed + 1]
    /\ cpc' = [cpc EXCEPT ![t] = "send"]
    /\ UNCHANGED <<procVars, channel, closed, workers, goVars, ci, enq, deq,
                   fin, done, starts>>

FeedSend(t) ==
    /\ cpc[t] = "send"
    /\ CanSend
    /\ channel' = SendBuffer(citem[t])
    /\ enq' = Append(enq, citem[t])
    /\ citem' = [citem EXCEPT ![t] = 0]
    /\ cpc' = [cpc EXCEPT ![t] = "idle"]
    /\ UNCHANGED <<procVars, closed, workers, counter, goVars, ci, fed, deq,
                   fin, done, starts>>

\* send on a closed channel panics, also for a sender suspended on a full one
FeedPanic(t) ==
    /\ cpc[t] = "send"
    /\ closed
    /\ counter' = FailedFeedCounter
    /\ cpc' = [cpc EXCEPT ![t] = "panicked"]
    /\ UNCHANGED <<procVars, channel, closed, workers, goVars, citem, ci,
                   histVars>>

(***************************************************************************)
(* IsDone and Stop.                                                        *)
(***************************************************************************)
IsDoneCall(t) ==
    /\ cpc[t] = "idle"
    /\ done' = IF IsDone THEN "true" ELSE "false"
    /\ UNCHANGED <<procVars, poolVars, goVars, callerVars, fed, enq, deq, fin,
                   starts>>

StopClose(t) ==
    /\ cpc[t] = "idle"
    /\ ~closed
    /\ closed' = TRUE
    /\ channel' = CloseBuffer
    /\ stopAt' = <<fed, counter>>
    /\ UNCHANGED <<crashed, workers, counter, goVars, callerVars, histVars>>

\* mutant: the second close panics and empties the queue
StopPanic_DropsQueue(t) ==
    /\ cpc[t] = "idle"
    /\ closed
    /\ channel' = <<>>
    /\ cpc' = [cpc EXCEPT ![t] = "panicked"]
    /\ UNCHANGED <<procVars, closed, workers, counter, goVars, citem, ci,
                   histVars>>

\* close of a closed channel panics
StopPanic(t) ==
    /\ cpc[t] = "idle"
    /\ closed
    /\ cpc' = [cpc EXCEPT ![t] = "panicked"]
    /\ UNCHANGED <<procVars, poolVars, goVars, citem, ci, histVars>>

\* the caller recovers the panic of its call and goes on
Recover(t) ==
    /\ cpc[t] = "panicked"
    /\ cpc' = [cpc EXCEPT ![t] = "idle"]
    /\ citem' = [citem EXCEPT ![t] = 0]
    /\ UNCHANGED <<procVars, poolVars, goVars, ci, histVars>>

\* the caller has no recover either (the test and main have none): the panic
\* of its Feed or Stop ends the whole process
Unrecovered(t) ==
    /\ cpc[t] = "panicked"
    /\ crashed' = IF citem[t] # 0 THEN "Feed" ELSE "Stop"
    /\ UNCHANGED <<stopAt, poolVars, goVars, callerVars, histVars>>

\* the process is alive: no panic went unrecovered
Running == crashed = "no"

(***************************************************************************)
(* Specifications.                                                         *)
(***************************************************************************)
FeedInProgress == \E t \in Callers : cpc[t] = "send"

\* number of worker goroutines created so far
Spawned == waiting + Cardinality(calling) + Cardinality(returned) + exited

WorkerStep ==
    \/ WorkerRecv
    \/ \E x \in Items : CallbackReturn(x)
    \/ \E x \in Items : WorkerDecrement(x)
    \/ WorkerExit

\* The use the documentation describes: a positive worker count, Start called
\* once, no Feed once Stop was called, Stop called once and not during a Feed.
Init == \E w \in 1..MaxWorkers : NewThreadManager(w)

Next ==
    \/ \E t \in Callers : starts = 0 /\ StartCall(t)
    \/ \E t \in Callers : StartSpawn(t)
    \/ \E t \in Callers : StartReturn(t)
    \/ \E t \in Callers : ~closed /\ FeedIncrement(t)
    \/ \E t \in Callers : FeedSend(t)
    \/ \E t \in Callers : IsDoneCall(t)
    \/ \E t \in Callers : ~FeedInProgress /\ StopClose(t)
    \/ WorkerStep

Spec == Init /\ [][Next]_vars

\* A step of the pool's own code: a launch by a running Start, the send of a
\* running Feed, a worker's receive, callback return, decrement or exit.
CodeStep ==
    \/ \E t \in Callers : StartSpawn(t) \/ StartReturn(t) \/ FeedSend(t)
    \/ WorkerStep

\* What the scheduler and the callbacks guarantee: while some goroutine can
\* take its next step, one of them does, and every callback returns.  The
\* callers' choice to call Start, Feed, IsDone or Stop is under no fairness.
Fairness == WF_vars(CodeStep)

\* The documented use without the polling, which changes nothing of the pool.
NextFair ==
    \/ \E t \in Callers : starts = 0 /\ StartCall(t)
    \/ \E t \in Callers : StartSpawn(t)
    \/ \E t \in Callers : StartReturn(t)
    \/ \E t \in Callers : ~closed /\ FeedIncrement(t)
    \/ \E t \in Callers : FeedSend(t)
    \/ \E t \in Callers : ~FeedInProgress /\ StopClose(t)
    \/ WorkerStep

FairSpec == Init /\ [][NextFair]_vars /\ Fairness

\* The scheduler lets a worker that can receive do so; callbacks may run for
\* ever and the callers are under no fairness.
RecvFairSpec == Init /\ [][NextFair]_vars /\ WF_vars(WorkerRecv)

\* One worker and one feeding goroutine; the other callers start, poll, stop.
Feeder == 1

InitSerial == NewThreadManager(1)

NextSerial ==
    \/ \E t \in Callers : starts = 0 /\ StartCall(t)
    \/ \E t \in Callers : StartSpawn(t)
    \/ \E t \in Callers : StartReturn(t)
    \/ ~closed /\ FeedIncrement(Feeder)
    \/ FeedSend(Feeder)
    \/ \E t \in Callers : IsDoneCall(t)
    \/ \E t \in Callers : ~FeedInProgress /\ StopClose(t)
    \/ WorkerStep

SpecSerial == InitSerial /\ [][NextSerial]_vars

\* Any worker count and any calls at any time.
InitAny == \E w \in 0..MaxWorkers : NewThreadManager(w)

NextAny ==
    \/ \E t \in Callers : StartCall(t)
    \/ \E t \in Callers : StartSpawn(t)
    \/ \E t \in Callers : StartReturn(t)
    \/ \E t \in Callers : FeedIncrement(t)
    \/ \E t \in Callers : FeedSend(t)
    \/ \E t \in Callers : FeedPanic(t)
    \/ \E t \in Callers : IsDoneCall(t)
    \/ \E t \in Callers : StopClose(t)
    \/ \E t \in Callers : StopPanic(t)
    \/ \E t \in Callers : Recover(t)
    \/ WorkerStep

SpecAny == InitAny /\ [][NextAny]_vars

\* The documented use, but for the worker count, which may be zero.
SpecZero == InitAny /\ [][Next]_vars

\* The documented use with one feeding goroutine, but for Start, which is
\* called up to MaxStarts times, one call after the other.
StartInProgress == \E t \in Callers : cpc[t] = "start"

NextMulti ==
    \/ \E t \in Callers : ~StartInProgress /\ StartCall(t)
    \/ \E t \in Callers : StartSpawn(t)
    \/ \E t \in Callers : StartReturn(t)
    \/ ~closed /\ FeedIncrement(Feeder)
    \/ FeedSend(Feeder)
    \/ \E t \in Callers : ~FeedInProgress /\ StopClose(t)
    \/ WorkerStep

SpecMulti == Init /\ [][NextMulti]_vars

\* Start called once; one goroutine feeds, at any time, also after Stop; Stop
\* is called at any time, also during a Feed and a second time; the callers
\* may or may not recover a panic.  Once a panic went unrecovered the process
\* is gone and nothing steps.
NextMisuse ==
    \/ \E t \in Callers : Running /\ starts = 0 /\ StartCall(t)
    \/ \E t \in Callers : Running /\ StartSpawn(t)
    \/ \E t \in Callers : Running /\ StartReturn(t)
    \/ Running /\ FeedIncrement(Feeder)
    \/ Running /\ FeedSend(Feeder)
    \/ Running /\ FeedPanic(Feeder)
    \/ \E t \in Callers : Running /\ StopClose(t)
    \/ \E t \in Callers : Running /\ StopPanic(t)
    \/ \E t \in Callers : Running /\ Recover(t)
    \/ \E t \in Callers : Running /\ Unrecovered(t)
    \/ Running /\ WorkerRecv
    \/ \E x \in Items : Running /\ CallbackReturn(x)
    \/ \E x \in Items : Running /\ WorkerDecrement(x)
    \/ Running /\ WorkerExit

SpecMisuse == Init /\ [][NextMisuse]_vars

\* The documented use with callbacks that may panic.
NextFault ==
    \/ \E t \in Callers : Running /\ starts = 0 /\ StartCall(t)
    \/ \E t \in Callers : Running /\ StartSpawn(t)
    \/ \E t \in Callers : Running /\ StartReturn(t)
    \/ \E t \in Callers : Running /\ ~closed /\ FeedIncrement(t)
    \/ \E t \in Callers : Running /\ FeedSend(t)
    \/ \E t \in Callers : Running /\ ~FeedInProgress /\ StopClose(t)
    \/ Running /\ WorkerRecv
    \/ \E x \in Items : Running /\ CallbackReturn(x)
    \/ \E x \in Items : Running /\ CallbackPanic(x)
    \/ \E x \in Items : Running /\ WorkerDecrement(x)
    \/ Running /\ WorkerExit

SpecFault == Init /\ [][NextFault]_vars

(***************************************************************************)
(* Definitions the properties share.                                       *)
(***************************************************************************)
Range(s) == {s[i] : i \in 1..Len(s)}

Count(s, x) == Cardinality({i \in 1..Len(s) : s[i] = x})

\* the items fed so far: Feed call number x feeds item x
Fed == 1..fed

\* items whose Feed did its increment and has not completed its send
Unsent == {x \in Fed : x \notin Range(enq)}

\* no Feed is under way, the queue is empty and no worker holds an item
Quiescent ==
    /\ ~FeedInProgress
    /\ channel = <<>>
    /\ calling = {}
    /\ returned = {}

(***************************************************************************)
(* C1: in a pool started once with W >= 1 workers and returning callbacks, *)
(* no item is ever received or completed twice, and once every Feed has    *)
(* returned and all workers have finished processing, IsDone() is true and *)
(* the callback has run exactly once for each fed item.                    *)
(***************************************************************************)
C1_ExactlyOnce ==
    /\ \A x \in Items : Count(deq, x) <= 1 /\ Count(fin, x) <= 1
    /\ Range(deq) \subseteq Fed
    /\ Quiescent =>
        /\ IsDone
        /\ \A x \in Fed : Count(deq, x) = 1 /\ Count(fin, x) = 1

C1_Witness ==
    /\ Quiescent
    /\ fed = MaxItems
    /\ Len(fin) = MaxItems
    /\ IsDone
    /\ workers = MaxWorkers

(***************************************************************************)
(* C3: IsDone() reflects completion, not dequeue: while some fed item's    *)
(* callback has not returned IsDone() is false, and whenever IsDone() is   *)
(* true the queue is empty, no worker is inside the callback and no Feed   *)
(* is between its increment and its send.                                  *)
(***************************************************************************)
C3_DoneMeansCompleted ==
    /\ (\E x \in Fed : x \notin Range(fin)) => ~IsDone
    /\ IsDone => channel = <<>> /\ calling = {} /\ ~FeedInProgress

\* an item has left the queue and is still inside its callback
C3_Witness ==
    /\ channel = <<>>
    /\ ~FeedInProgress
    /\ calling # {}
    /\ ~IsDone

(***************************************************************************)
(* C4: items are received in the order their sends completed: the receive  *)
(* history is a prefix of the send history.                                *)
(***************************************************************************)
C4_Fifo ==
    /\ Len(deq) <= Len(enq)
    /\ \A i \in 1..Len(deq) : deq[i] = enq[i]

\* two feeders sent in the opposite order of their increments, two workers
C4_Witness ==
    /\ workers >= 2
    /\ Len(deq) >= 2
    /\ enq[1] > enq[2]

(***************************************************************************)
(* C5: the queue never holds more than workerCount items; a Feed that has  *)
(* not sent yet has its item outside the queue; a Feed returns only by a   *)
(* step that starts with room in the queue and appends its item, so a Feed *)
(* facing a full queue stays suspended until a worker receives; and a Feed *)
(* facing a queue below capacity can complete at once, with no worker step.*)
(***************************************************************************)
C5_BoundedQueue ==
    /\ [](Len(channel) <= workers)
    /\ [](\A t \in Callers : cpc[t] = "send" =>
            /\ citem[t] \notin Range(channel)
            /\ Len(channel) < workers => ENABLED FeedSend(t)
            /\ Len(channel) >= workers => ~ENABLED FeedSend(t))
    /\ [][\A t \in Callers : (cpc[t] = "send" /\ cpc'[t] = "idle") =>
            /\ Len(channel) < workers
            /\ channel' = Append(channel, citem[t])
            /\ waiting' = waiting /\ calling' = calling]_vars

\* a Feed is suspended on a full queue
C5_Witness ==
    \E t \in Callers :
        /\ cpc[t] = "send"
        /\ Len(channel) = workers
        /\ workers = MaxWorkers

(***************************************************************************)
(* C7 as stated: the pending counter equals the number of items between    *)
(* increment and send, in the queue, or inside a callback.                 *)
(***************************************************************************)
C7_Original ==
    counter = Cardinality(Unsent) + Len(channel) + Cardinality(calling)

(***************************************************************************)
(* C7 amended: the pending counter equals the number of items between      *)
(* increment and send, in the queue, inside a callback, or whose callback  *)
(* has returned while their worker has not yet done its decrement; it is   *)
(* never negative, and it is zero once every fed item's callback has       *)
(* returned and every worker has done its decrement.                       *)
(***************************************************************************)
C7_Pending ==
    /\ counter = Cardinality(Unsent) + Len(channel) + Cardinality(calling)
                 + Cardinality(returned)
    /\ counter >= 0
    /\ (Fed \subseteq Range(fin) /\ returned = {}) => counter = 0

\* two feeders under way, an item queued, a callback returned but not counted
C7_Witness ==
    /\ Cardinality(Unsent) >= 1
    /\ Len(channel) >= 1
    /\ returned # {}
    /\ \E t \in Callers : cpc[t] = "send"

(***************************************************************************)
(* C8: a call of IsDone() returns true exactly if the counter is 0 at the  *)
(* read, changes nothing of the pool, its workers or its callers, and can  *)
(* be taken by any caller not inside another call (it never blocks), in    *)
(* every lifecycle state.                                                  *)
(***************************************************************************)
C8_IsDoneSnapshot ==
    /\ [][done' # done =>
            /\ done' \in {"true", "false"}
            /\ done' = "true" <=> counter = 0
            /\ UNCHANGED <<poolVars, goVars, callerVars, procVars, fed, enq,
                           deq, fin, starts>>]_vars
    /\ [](\A t \in Callers : cpc[t] = "idle" => ENABLED IsDoneCall(t))

\* the last IsDone() returned true and a Feed went on to increment after it
C8_Witness ==
    /\ done = "true"
    /\ counter > 0

(***************************************************************************)
(* The lifecycle of the pool: 0 Constructed, 1 Running (Start was called), *)
(* 2 Stopping (queue closed, items or workers remain), 3 Terminated (queue *)
(* closed and drained, every worker has left its loop and no Start call is *)
(* about to launch another one).                                           *)
(***************************************************************************)
Launching == \E t \in Callers : cpc[t] = "start" /\ StartLoop(t)

Lifecycle ==
    IF closed
    THEN IF /\ channel = <<>>
            /\ waiting = 0 /\ calling = {} /\ returned = {}
            /\ ~Launching
         THEN 3
         ELSE 2
    ELSE IF starts > 0 THEN 1 ELSE 0

(***************************************************************************)
(* C9: the lifecycle only moves forward: no call of Start, Feed, IsDone or *)
(* Stop and no worker step takes the pool to an earlier lifecycle state.   *)
(***************************************************************************)
C9_ForwardOnly == [][Lifecycle' >= Lifecycle]_vars

(***************************************************************************)
(* C10: with one worker and one feeder, at most one callback is running at *)
(* any time and the callbacks return in the order the items were fed.      *)
(***************************************************************************)
C10_Serial ==
    /\ Cardinality(calling) + Cardinality(returned) <= 1
    /\ \A i \in 1..Len(fin) : fin[i] = i

C10_Witness ==
    /\ Len(fin) = MaxItems
    /\ workers = 1

(***************************************************************************)
(* C2: from any state in which Start has been called, a state is reached   *)
(* in which every Feed issued so far has returned, the callback of every   *)
(* item fed so far has returned and IsDone() holds, also with more items   *)
(* than queue slots; and never more than workerCount workers exist.        *)
(***************************************************************************)
C2_Completes ==
    /\ (starts > 0) ~> (~FeedInProgress /\ Fed \subseteq Range(fin) /\ IsDone)
    /\ [](Spawned <= workers)

\* more items than queue slots were fed, all Feeds returned, all completed
C2_Witness ==
    /\ fed = MaxItems
    /\ fed > workers
    /\ Len(fin) = fed
    /\ Spawned = workers
    /\ ~FeedInProgress
    /\ IsDone

(***************************************************************************)
(* C6: Stop() keeps the queued items; a worker leaves its loop only when   *)
(* the queue is closed and empty; no item is processed twice; once Stop    *)
(* and Start have been called, eventually all workerCount workers have     *)
(* left and every item that was sent (the items queued at Stop are among   *)
(* them, and none is sent after Stop) has had its callback return; from    *)
(* then on no worker is waiting, calling or decrementing.                  *)
(***************************************************************************)
C6_StopDrains ==
    /\ [][(~closed /\ closed') => channel' = channel]_vars
    /\ [][exited' # exited =>
            closed /\ channel = <<>> /\ exited' = exited + 1]_vars
    /\ [](\A x \in Items : Count(deq, x) <= 1 /\ Count(fin, x) <= 1)
    /\ [](Range(channel) \subseteq Range(enq))
    /\ [][closed => enq' = enq]_vars
    /\ (closed /\ starts > 0) ~>
            (exited = workers /\ Range(enq) \subseteq Range(fin))
    /\ [][exited = workers =>
            (exited' = workers /\ waiting' = 0 /\ calling' = {}
             /\ returned' = {})]_vars

\* Stop was called with a full queue that no worker has touched yet
C6_Witness ==
    /\ closed
    /\ Len(channel) = MaxWorkers
    /\ Spawned = workers
    /\ exited = 0

(***************************************************************************)
(* C11: work is not pre-assigned: whenever the queue is not empty and a    *)
(* worker is waiting at its receive, the receive is enabled, whatever the  *)
(* other workers do; and when the scheduler is fair to the receive alone   *)
(* (callbacks may never return), the queue does not stay non-empty for     *)
(* ever while a worker is waiting.                                         *)
(***************************************************************************)
C11_NoIdleWithWork ==
    /\ []((Len(channel) > 0 /\ waiting > 0) => ENABLED WorkerRecv)
    /\ []<>(Len(channel) = 0 \/ waiting = 0)

\* an item is queued, a worker is waiting, another worker is in its callback
C11_Witness ==
    /\ Len(channel) > 0
    /\ waiting > 0
    /\ calling # {}

(***************************************************************************)
(* C12: completion order is not tied to feed order: an item sent later can *)
(* have its callback return first; this happens only with two or more      *)
(* workers, and the two items were still received in the order sent.       *)
(***************************************************************************)
Pos(s, x) == CHOOSE i \in 1..Len(s) : s[i] = x

\* the pairs <<B, A>>: B completed before A although A was sent before B
Overtakes ==
    {<<fin[i], fin[j]>> : i \in 1..Len(fin), j \in 1..Len(fin)} \cap
    {p \in Items \X Items :
        /\ Pos(fin, p[1]) < Pos(fin, p[2])
        /\ Pos(enq, p[1]) > Pos(enq, p[2])}

C12_CompletionOrder ==
    \A p \in Overtakes :
        /\ workers >= 2
        /\ Pos(deq, p[2]) < Pos(deq, p[1])

\* item B, sent after item A, has completed while A is still in its callback
C12_Witness ==
    \E a \in calling : \E b \in Range(fin) : Pos(enq, a) < Pos(enq, b)

(***************************************************************************)
(* C13: construction starts no worker and leaves the pending counter at    *)
(* zero; one Start launches exactly tm.workers workers; the number of      *)
(* workers never increases afterwards, so at most tm.workers callbacks are *)
(* in progress and no callback runs before Start.                          *)
(***************************************************************************)
C13_WorkerCount ==
    /\ (starts = 0 /\ fed = 0) => counter = 0
    /\ starts = 0 => (Spawned = 0 /\ calling = {} /\ deq = <<>>)
    /\ (starts = 1 /\ ~Launching) => Spawned = workers
    /\ Spawned <= workers
    /\ Cardinality(calling) <= workers

\* Start has returned and every one of the workers is inside a callback
C13_Witness ==
    /\ starts = 1
    /\ ~Launching
    /\ workers = MaxWorkers
    /\ Cardinality(calling) = workers

(***************************************************************************)
(* C14: Stop() on a pool whose queue is already closed panics in the       *)
(* caller instead of returning: an idle caller of a live process can then  *)
(* only take the panicking Stop, never the closing one, and the step that  *)
(* panics changes neither the queue, the counter nor the workers.          *)
(***************************************************************************)
C14_SecondStopPanics ==
    /\ [](\A t \in Callers :
            (Running /\ closed /\ cpc[t] = "idle") =>
                /\ ENABLED StopPanic(t)
                /\ ~ENABLED StopClose(t))
    /\ [][\A t \in Callers :
            (cpc[t] = "idle" /\ cpc'[t] = "panicked") =>
                /\ closed
                /\ UNCHANGED <<poolVars, goVars>>]_vars

\* a second Stop has panicked while the queue and a worker still hold items
C14_Witness ==
    /\ closed
    /\ \E t \in Callers : cpc[t] = "panicked" /\ citem[t] = 0
    /\ channel # <<>>
    /\ calling # {}

(***************************************************************************)
(* C15: a Feed(x) called after Stop() fails without harm: x is never       *)
(* enqueued, the callback is never invoked for x, and the failure of the   *)
(* call does not end the process.                                          *)
(***************************************************************************)
\* the items whose Feed was called after Stop
FedAfterStop == IF closed THEN {x \in Fed : x > stopAt[1]} ELSE {}

C15_FeedAfterStop ==
    \A x \in FedAfterStop :
        /\ x \notin Range(enq)
        /\ x \notin Range(deq)
        /\ ~(crashed = "Feed" /\ \E t \in Callers : citem[t] = x)

C17_ZeroWorkers ==
    workers = 0 =>
        /\ Capacity = 0
        /\ Spawned = 0
        /\ enq = <<>> /\ deq = <<>> /\ fin = <<>>
        /\ counter = fed
        /\ fed >= 1 => ~IsDone
        /\ \A x \in Fed : \E t \in Callers : cpc[t] = "send" /\ citem[t] = x
        /\ \A t \in Callers : cpc[t] = "send" => ~ENABLED FeedSend(t)

\* Start has returned, a Feed is suspended and IsDone() has returned false
C17_Witness ==
    /\ workers = 0
    /\ starts = 1
    /\ ~Launching
    /\ \E t \in Callers : cpc[t] = "send" /\ citem[t] = 1
    /\ done = "false"

(***************************************************************************)
(* C18: when Start is called k times, k * tm.workers workers share the one *)
(* queue once the calls have returned; no item is received or completed    *)
(* twice, and once every Feed has returned and the workers have finished,  *)
(* every fed item was processed exactly once and the counter is zero.      *)
(***************************************************************************)
C18_SharedQueue ==
    /\ ~StartInProgress => Spawned = starts * workers
    /\ Spawned <= starts * workers
    /\ \A x \in Items : Count(deq, x) <= 1 /\ Count(fin, x) <= 1
    /\ Quiescent =>
        /\ counter = 0
        /\ \A x \in Fed : Count(deq, x) = 1 /\ Count(fin, x) = 1

\* two Starts have returned and more than tm.workers callbacks are running
C18_Witness ==
    /\ starts >= 2
    /\ ~StartInProgress
    /\ Spawned = 2 * workers
    /\ Cardinality(calling) > workers

(***************************************************************************)
(* C19: a Feed that fails on the closed queue keeps its increment: the     *)
(* counter never drops below the number of failed Feeds, a failed Feed     *)
(* stays failed, and from the increment of a Feed called after Stop on     *)
(* IsDone() is false in every later state, also when all workers exited.   *)
(***************************************************************************)
\* the items whose Feed panicked in its send
Failed ==
    {x \in Unsent : \A t \in Callers : ~(cpc[t] = "send" /\ citem[t] = x)}

C19_IncrementKept ==
    /\ [](counter >= Cardinality(Failed))
    /\ []((Failed # {} \/ FedAfterStop # {}) => ~IsDone)
    /\ [](FedAfterStop \subseteq Unsent)
    /\ [][Failed \subseteq Failed' /\ FedAfterStop \subseteq FedAfterStop']_vars

\* a Feed after Stop has failed, its caller went on, every worker has exited
C19_Witness ==
    /\ FedAfterStop \cap Failed # {}
    /\ Running
    /\ \A t \in Callers : cpc[t] = "idle"
    /\ workers = MaxWorkers
    /\ exited = workers
    /\ counter >= 1

(***************************************************************************)
(* C20: Stop() is safe only when no Feed is in progress.  A Feed that is   *)
(* between its increment and its send, or suspended on the full queue,     *)
(* when the queue is closed can only panic; nothing is enqueued after the  *)
(* close, so its item is never processed and the counter stays above zero  *)
(* for ever.  When the counter was zero at Stop (IsDone() was true) and no *)
(* Feed was issued since, no Feed is left unsent and none panics.          *)
(***************************************************************************)
\* Stop was called with the counter at zero and no Feed was issued since
StoppedWhenDone == closed /\ stopAt = <<fed, 0>>

C20_StopDuringFeed ==
    /\ [](\A t \in Callers :
            (closed /\ cpc[t] = "send") =>
                /\ ENABLED FeedPanic(t)
                /\ ~ENABLED FeedSend(t))
    /\ [][closed => (enq' = enq /\ Unsent \subseteq Unsent')]_vars
    /\ [](Unsent \cap Range(deq) = {})
    /\ []((closed /\ Unsent # {}) => ~IsDone)
    /\ [](StoppedWhenDone =>
            /\ Unsent = {}
            /\ \A t \in Callers : cpc[t] # "send" /\ citem[t] = 0
            /\ crashed # "Feed")

\* a Feed suspended on the full queue when Stop was called has panicked
C20_Witness ==
    /\ closed
    /\ Len(channel) = Capacity
    /\ \E t \in Callers :
        /\ cpc[t] = "panicked"
        /\ citem[t] \in 1..stopAt[1]
        /\ stopAt[2] > Capacity

====
